---- MODULE Spec2Model ----
(***************************************************************************)
(* A model of src/app.py, the bus complaint system: the user collection,   *)
(* the complaint collection, the login sessions and the request handlers   *)
(* register, login, logout, dashboard, update_complaint_status,            *)
(* admin_dashboard, submit_complaint and check_duplicate_complaint.        *)
(*                                                                         *)
(* A Python str is a sequence of one-character strings, so that lower(),   *)
(* the `in` substring test and strptime are computed, not assumed.  None   *)
(* is the value None below.  A datetime produced by strptime('%Y-%m-%d')   *)
(* is at midnight and is represented by its proleptic Gregorian ordinal    *)
(* (date.toordinal()); timedelta(days=1) adds 1.  utcnow() reads the clock *)
(* `now`, counted in ticks.                                                *)
(***************************************************************************)
EXTENDS Integers, Sequences, FiniteSets, TLC

VARIABLES
    users,       \* db.users: the sequence of user documents; _id is the index
    complaints,  \* db.complaints: the sequence of complaint documents
    logged_in,   \* the _ids holding a flask_login session
    now,         \* the clock datetime.utcnow() reads
    response,    \* the response of the last request handled
    inflight     \* per worker thread: the request it is in the middle of

vars == <<users, complaints, logged_in, now, response, inflight>>

(***************************************************************************)
(* Bounds of the model.                                                    *)
(***************************************************************************)
MaxUsers == 2
MaxComplaints == 2
MaxClock == 1
NumWorkers == 2

Workers == 1..NumWorkers

(***************************************************************************)
(* Python values.                                                          *)
(***************************************************************************)
None == <<"None">>

\* bool(v) of a form value: None and '' are falsy.
Truthy(v) == v # None /\ v # <<>>

UpperCase == <<"A","B","C","D","E","F","G","H","I","J","K","L","M",
               "N","O","P","Q","R","S","T","U","V","W","X","Y","Z">>
LowerCase == <<"a","b","c","d","e","f","g","h","i","j","k","l","m",
               "n","o","p","q","r","s","t","u","v","w","x","y","z">>

\* the lower-case letter of each upper-case letter
ToLower ==
    [c \in {UpperCase[i] : i \in 1..26} |->
        LowerCase[CHOOSE i \in 1..26 : UpperCase[i] = c]]

LowerChar(c) == IF c \in DOMAIN ToLower THEN ToLower[c] ELSE c

\* str.lower()
lower(s) == IF s = <<>> THEN <<>> ELSE [i \in 1..Len(s) |-> LowerChar(s[i])]

\* a in b, for two str
IsSubstring(a, b) ==
    \E i \in 0..(Len(b) - Len(a)) : SubSeq(b, i + 1, i + Len(a)) = a

(***************************************************************************)
(* datetime.strptime(s, '%Y-%m-%d').  The format compiles to the regular   *)
(* expression (\d\d\d\d)-(1[0-2]|0[1-9]|[1-9])-(3[01]|[12]\d|0[1-9]|[1-9]| *)
(* [1-9]), which must consume the whole string; the date constructor then  *)
(* rejects year 0 and a day past the month's end.  BadDate stands for the  *)
(* ValueError (TypeError for None).                                        *)
(***************************************************************************)
BadDate == -1

Digits == <<"0","1","2","3","4","5","6","7","8","9">>

\* int(c) of each digit
DigitValue ==
    [c \in {Digits[i] : i \in 1..10} |->
        (CHOOSE i \in 1..10 : Digits[i] = c) - 1]

IsDigit(c) == c \in DOMAIN DigitValue

DigitVal(c) == DigitValue[c]

AllDigits(s) == \A i \in 1..Len(s) : IsDigit(s[i])

RECURSIVE NumVal(_)
NumVal(s) ==
    IF s = <<>> THEN 0
    ELSE 10 * NumVal(SubSeq(s, 1, Len(s) - 1)) + DigitVal(s[Len(s)])

\* the positions of '-' in s
Dashes(s) == {i \in 1..Len(s) : s[i] = "-"}

\* the month group: 1[0-2]|0[1-9]|[1-9]
MonthText(s) ==
    /\ Len(s) \in {1, 2}
    /\ AllDigits(s)
    /\ NumVal(s) \in 1..12

\* the day group: 3[01]|[12]\d|0[1-9]|[1-9]| [1-9]
DayText(s) ==
    \/ /\ Len(s) \in {1, 2}
       /\ AllDigits(s)
       /\ NumVal(s) \in 1..31
    \/ /\ Len(s) = 2
       /\ s[1] = " "
       /\ IsDigit(s[2])
       /\ DigitVal(s[2]) \in 1..9

DayVal(s) == IF s[1] = " " THEN DigitVal(s[2]) ELSE NumVal(s)

IsLeap(y) == y % 4 = 0 /\ (y % 100 # 0 \/ y % 400 = 0)

DaysInMonth(y, m) ==
    IF m = 2 THEN (IF IsLeap(y) THEN 29 ELSE 28)
    ELSE IF m \in {4, 6, 9, 11} THEN 30 ELSE 31

RECURSIVE DaysBeforeMonth(_, _)
DaysBeforeMonth(y, m) ==
    IF m = 1 THEN 0 ELSE DaysBeforeMonth(y, m - 1) + DaysInMonth(y, m - 1)

DaysBeforeYear(y) ==
    (y - 1) * 365 + ((y - 1) \div 4) - ((y - 1) \div 100) + ((y - 1) \div 400)

\* date(y, m, d).toordinal()
ToOrdinal(y, m, d) == DaysBeforeYear(y) + DaysBeforeMonth(y, m) + d

strptime(s) ==
    IF s = None \/ Cardinality(Dashes(s)) # 2 THEN BadDate
    ELSE LET d1 == CHOOSE i \in Dashes(s) : \A j \in Dashes(s) : i <= j
             d2 == CHOOSE i \in Dashes(s) : \A j \in Dashes(s) : j <= i
             ys == SubSeq(s, 1, d1 - 1)
             ms == SubSeq(s, d1 + 1, d2 - 1)
             ds == SubSeq(s, d2 + 1, Len(s))
         IN IF /\ Len(ys) = 4
               /\ AllDigits(ys)
               /\ MonthText(ms)
               /\ DayText(ds)
               /\ NumVal(ys) >= 1
               /\ DayVal(ds) <= DaysInMonth(NumVal(ys), NumVal(ms))
            THEN ToOrdinal(NumVal(ys), NumVal(ms), DayVal(ds))
            ELSE BadDate

(***************************************************************************)
(* The documents and the requests.                                         *)
(***************************************************************************)
Admin == <<"a","d","m","i","n">>
Student == <<"s","t","u","d","e","n","t">>
Driver == <<"d","r","i","v","e","r">>

EmailA == <<"a","@","x",".","c","o","m">>
EmailB == <<"b","@","x",".","c","o","m">>
Password == <<"p","w">>
WrongPassword == <<"p","w","?">>

Route1 == <<"R","o","u","t","e"," ","1">>
Route2 == <<"R","o","u","t","e"," ","2">>

DescAc == <<"a","c">>
BrokenACUnit == <<"b","r","o","k","e","n"," ","A","C"," ","u","n","i","t">>
TheACUnitIsBroken ==
    <<"t","h","e"," ","A","C"," ","u","n","i","t"," ","i","s"," ",
      "b","r","o","k","e","n">>

\* the descriptions the requests carry, lower-cased once
DescriptionTexts == {DescAc, BrokenACUnit, TheACUnitIsBroken}

LowerOf == [s \in DescriptionTexts |-> lower(s)]

\* s.lower() as the handlers call it
Lowered(s) == IF s \in DOMAIN LowerOf THEN LowerOf[s] ELSE lower(s)

Mar01 == <<"2","0","2","4","-","0","3","-","0","1">>
Mar01Short == <<"2","0","2","4","-","3","-","1">>
Mar02 == <<"2","0","2","4","-","0","3","-","0","2">>
Feb30 == <<"2","0","2","4","-","0","2","-","3","0">>

Filled == <<"x">>

\* werkzeug's generate_password_hash, without its salt: a digest that is not
\* the password, and that check_password_hash recomputes and compares.
generate_password_hash(password) == <<"pbkdf2:">> \o password

check_password_hash(pwhash, password) ==
    pwhash = generate_password_hash(password)

\* The response of a handler: the status code, the redirect target or the
\* rendered page, the flashed message, what became of send_email ("none"
\* when it was not called) and, for the JSON endpoint, the duplicate flag.
Response(handler, code, target, flash, mail, duplicate) ==
    [handler |-> handler, code |-> code, target |-> target, flash |-> flash,
     mail |-> mail, duplicate |-> duplicate]

NoResponse == Response("-", 0, "-", "-", "none", "-")

\* @login_required for an anonymous caller (caller 0): login_view.
Unauthenticated(handler) == Response(handler, 302, "login", "-", "none", "-")

\* An exception no handler catches: Flask's 500 page.
ServerError(handler) == Response(handler, 500, "-", "-", "none", "-")

\* send_email(): True when mail.send returned, False when it raised.
Mail(sent) == IF sent THEN "sent" ELSE "failed"

(***************************************************************************)
(* register (lines 75-110), login, logout and the two dashboards.          *)
(***************************************************************************)
\* db.users.find_one({'email': email}) is not None
EmailExists(us, email) == \E i \in DOMAIN us : us[i].email = email

\* db.users.find_one({'email': email}): the first match in natural order,
\* 0 for None
FindByEmail(us, email) ==
    IF EmailExists(us, email)
    THEN CHOOSE i \in DOMAIN us :
            /\ us[i].email = email
            /\ \A j \in DOMAIN us : us[j].email = email => i <= j
    ELSE 0

\* lines 86-94: the inserted document; generate_password_hash(None) raises
UserData(form, t) ==
    [email |-> form.email,
     password |-> generate_password_hash(form.password),
     role |-> form.role,
     created_at |-> t]

EmailExistsResponse ==
    Response("register", 302, "register", "Email already exists", "none", "-")

Registered(sent) ==
    Response("register", 302, "login",
             IF sent THEN "Registration successful. Welcome email sent!"
             ELSE "Registration successful, but welcome email could not be sent.",
             Mail(sent), "-")

\* lines 86-108, after the lookup found nothing: hash, insert, welcome mail
RegisterInsert(us, form, t, sent) ==
    IF form.password = None
    THEN [users |-> us, response |-> ServerError("register")]
    ELSE [users |-> Append(us, UserData(form, t)), response |-> Registered(sent)]

\* a POST to /register, run without interruption
RegisterResult(us, form, t, sent) ==
    IF EmailExists(us, form.email)
    THEN [users |-> us, response |-> EmailExistsResponse]
    ELSE RegisterInsert(us, form, t, sent)

\* a POST to /login: the session it opens (0 for none) and the response
LoginResult(us, form) ==
    LET u == FindByEmail(us, form.email) IN
    IF u = 0
    THEN [session |-> 0,
          response |-> Response("login", 200, "login.html",
                                "Invalid email or password", "none", "-")]
    ELSE IF form.password = None
    THEN [session |-> 0, response |-> ServerError("login")]
    ELSE IF check_password_hash(us[u].password, form.password)
    THEN [session |-> u,
          response |-> Response("login", 302,
                                IF us[u].role = Admin THEN "admin_dashboard"
                                ELSE "dashboard", "-", "none", "-")]
    ELSE [session |-> 0,
          response |-> Response("login", 200, "login.html",
                                "Invalid email or password", "none", "-")]

\* current_user.user_data['role'] of an authenticated caller
Role(us, caller) == us[caller].role

DashboardResponse(us, caller) ==
    IF caller = 0 THEN Unauthenticated("dashboard")
    ELSE IF Role(us, caller) = Admin
    THEN Response("dashboard", 302, "admin_dashboard", "-", "none", "-")
    ELSE Response("dashboard", 200, "dashboard.html", "-", "none", "-")

AdminDashboardResponse(us, caller) ==
    IF caller = 0 THEN Unauthenticated("admin_dashboard")
    ELSE IF Role(us, caller) # Admin
    THEN Response("admin_dashboard", 302, "dashboard", "-", "none", "-")
    ELSE Response("admin_dashboard", 200, "admin_dashboard.html", "-", "none", "-")

\* The date texts of the requests below, parsed once: TLC evaluates a
\* definition without parameters a single time.
DateTexts ==
    {Mar01, Mar01Short, Mar02, Feb30, <<>>, None}

StrptimeOf == [s \in DateTexts |-> strptime(s)]

\* datetime.strptime(incident_date, '%Y-%m-%d') as the handlers call it
ParseIncidentDate(s) ==
    IF s \in DOMAIN StrptimeOf THEN StrptimeOf[s] ELSE strptime(s)

(***************************************************************************)
(* update_complaint_status (lines 145-178).                                *)
(***************************************************************************)
\* a complaint_id that ObjectId() rejects (bson.errors.InvalidId)
BadId == 0

UnauthorizedResponse ==
    Response("update_complaint_status", 302, "dashboard",
             "Unauthorized access", "none", "-")

StatusUpdated(sent) ==
    Response("update_complaint_status", 302, "admin_dashboard",
             IF sent
             THEN "Complaint status updated successfully. Notification email sent!"
             ELSE "Complaint status updated successfully, but notification email could not be sent.",
             Mail(sent), "-")

\* line 178, reached with nothing flashed: no complaint, or no owner
NothingFlashed ==
    Response("update_complaint_status", 302, "admin_dashboard", "-", "none", "-")

\* FindOneAndUpdate as an update_many with an empty filter
FindOneAndUpdateMany(cs, id, status, t) ==
    IF id \in DOMAIN cs
    THEN [i \in DOMAIN cs |-> [cs[i] EXCEPT !.status = status, !.updated_at = t]]
    ELSE cs

\* FindOneAndUpdate with 'resolved' as a terminal status: the filter also
\* asks for a status other than resolved
FindOneAndUpdateTerminal(cs, id, status, t) ==
    IF id \in DOMAIN cs /\ cs[id].status # "resolved"
    THEN [cs EXCEPT ![id].status = status, ![id].updated_at = t]
    ELSE cs

\* lines 152-156: find_one_and_update({'_id': id}, {'$set': {...}})
FindOneAndUpdate(cs, id, status, t) ==
    IF id \in DOMAIN cs
    THEN [cs EXCEPT ![id].status = status, ![id].updated_at = t]
    ELSE cs

\* UpdateResult without the role test of line 148
UpdateResultAnyRole(us, cs, caller, id, status, t, sent) ==
    IF caller = 0
    THEN [complaints |-> cs, response |-> Unauthenticated("update_complaint_status")]
    ELSE IF id = BadId
    THEN [complaints |-> cs, response |-> ServerError("update_complaint_status")]
    ELSE [complaints |-> FindOneAndUpdate(cs, id, status, t),
          response |->
              IF id \in DOMAIN cs /\ cs[id].user_id \in DOMAIN us
              THEN StatusUpdated(sent)
              ELSE NothingFlashed]

\* UpdateResult without the test of line 158: mail and flash even when
\* find_one_and_update returned None
UpdateResultAlwaysNotifies(us, cs, caller, id, status, t, sent) ==
    IF caller = 0
    THEN [complaints |-> cs, response |-> Unauthenticated("update_complaint_status")]
    ELSE IF Role(us, caller) # Admin
    THEN [complaints |-> cs, response |-> UnauthorizedResponse]
    ELSE IF id = BadId
    THEN [complaints |-> cs, response |-> ServerError("update_complaint_status")]
    ELSE [complaints |-> FindOneAndUpdate(cs, id, status, t),
          response |-> StatusUpdated(sent)]

UpdateResult(us, cs, caller, id, status, t, sent) ==
    IF caller = 0
    THEN [complaints |-> cs, response |-> Unauthenticated("update_complaint_status")]
    ELSE IF Role(us, caller) # Admin
    THEN [complaints |-> cs, response |-> UnauthorizedResponse]
    ELSE IF id = BadId
    THEN [complaints |-> cs, response |-> ServerError("update_complaint_status")]
    ELSE [complaints |-> FindOneAndUpdate(cs, id, status, t),
          response |->
              IF id \in DOMAIN cs /\ cs[id].user_id \in DOMAIN us
              THEN StatusUpdated(sent)
              ELSE NothingFlashed]

(***************************************************************************)
(* The duplicate rule (lines 220-233 and 291-303).                         *)
(***************************************************************************)
\* ExistingComplaints with the bus_route key left out of the query
ExistingComplaintsAnyRoute(cs, bus_route, incident_date) ==
    {i \in DOMAIN cs :
        /\ cs[i].incident_date >= incident_date
        /\ cs[i].incident_date < incident_date + 1}

\* ExistingComplaints with '$lte' for '$lt'
ExistingComplaintsClosedWindow(cs, bus_route, incident_date) ==
    {i \in DOMAIN cs :
        /\ cs[i].bus_route = bus_route
        /\ cs[i].incident_date >= incident_date
        /\ cs[i].incident_date <= incident_date + 1}

\* db.complaints.find({'bus_route': r, 'incident_date': {'$gte': d, '$lt': d + 1 day}})
ExistingComplaints(cs, bus_route, incident_date) ==
    {i \in DOMAIN cs :
        /\ cs[i].bus_route = bus_route
        /\ cs[i].incident_date >= incident_date
        /\ cs[i].incident_date < incident_date + 1}

\* Similar with the second test of line 231 left out
SimilarOneWay(description, existing) ==
    IsSubstring(Lowered(description), Lowered(existing))

\* description.lower() in existing_description or
\* existing_description in description.lower()
Similar(description, existing) ==
    LET existing_description == Lowered(existing) IN
    \/ IsSubstring(Lowered(description), existing_description)
    \/ IsSubstring(existing_description, Lowered(description))

\* the for loop: some fetched complaint is similar
DuplicateFound(cs, bus_route, incident_date, description) ==
    \E i \in ExistingComplaints(cs, bus_route, incident_date) :
        Similar(description, cs[i].description)

(***************************************************************************)
(* submit_complaint (lines 201-278).                                       *)
(***************************************************************************)
RequiredFields ==
    {"student_id", "bus_route", "title", "description", "location", "incident_date"}

\* AllRequired with description left out of the list
AllRequiredButDescription(form) ==
    \A k \in RequiredFields \ {"description"} : Truthy(form[k])

\* AllRequired with location left out of the list
AllRequiredButLocation(form) ==
    \A k \in RequiredFields \ {"location"} : Truthy(form[k])

\* all([student_id, bus_route, title, description, location, incident_date])
AllRequired(form) == \A k \in RequiredFields : Truthy(form[k])

ValidationResponse ==
    Response("submit_complaint", 302, "submit_complaint",
             "All fields are required", "none", "-")

ErrorResponse ==
    Response("submit_complaint", 302, "submit_complaint",
             "Error submitting complaint", "none", "-")

DuplicateResponse ==
    Response("submit_complaint", 302, "submit_complaint",
             "A similar complaint has already been submitted for this bus on the selected date.",
             "none", "-")

Submitted(sent) ==
    Response("submit_complaint", 302, "dashboard",
             IF sent
             THEN "Complaint submitted successfully. Confirmation email sent!"
             ELSE "Complaint submitted successfully, but confirmation email could not be sent.",
             Mail(sent), "-")

\* lines 203-233: the response that ends the request before the insert, or
\* NoResponse when the request goes on to insert
SubmitRejection(cs, caller, form) ==
    IF caller = 0 THEN Unauthenticated("submit_complaint")
    ELSE IF ~AllRequired(form) THEN ValidationResponse
    ELSE LET incident_date == ParseIncidentDate(form.incident_date) IN
         IF incident_date = BadDate THEN ErrorResponse
         ELSE IF DuplicateFound(cs, form.bus_route, incident_date,
                                form.description)
         THEN DuplicateResponse
         ELSE NoResponse

\* ComplaintData with the two clock reads the other way round
ComplaintDataSwapped(caller, form, t1, t2) ==
    [user_id |-> caller,
     student_id |-> form.student_id,
     bus_route |-> form.bus_route,
     title |-> form.title,
     description |-> form.description,
     location |-> form.location,
     status |-> "pending",
     created_at |-> t2,
     updated_at |-> t1,
     incident_date |-> ParseIncidentDate(form.incident_date)]

\* lines 236-247; created_at and updated_at are two reads of the clock
ComplaintData(caller, form, t1, t2) ==
    [user_id |-> caller,
     student_id |-> form.student_id,
     bus_route |-> form.bus_route,
     title |-> form.title,
     description |-> form.description,
     location |-> form.location,
     status |-> "pending",
     created_at |-> t1,
     updated_at |-> t2,
     incident_date |-> ParseIncidentDate(form.incident_date)]

\* SubmitInsert that takes the insert back when the mail fails
SubmitInsertRollback(cs, caller, form, t1, t2, sent) ==
    [complaints |-> IF sent THEN Append(cs, ComplaintData(caller, form, t1, t2))
                    ELSE cs,
     response |-> Submitted(sent)]

\* SubmitInsert that runs the duplicate query again in one step with the
\* insert
SubmitInsertChecked(cs, caller, form, t1, t2, sent) ==
    IF DuplicateFound(cs, form.bus_route,
                      ParseIncidentDate(form.incident_date), form.description)
    THEN [complaints |-> cs, response |-> DuplicateResponse]
    ELSE [complaints |-> Append(cs, ComplaintData(caller, form, t1, t2)),
          response |-> Submitted(sent)]

\* lines 249-270: insert, confirmation mail
SubmitInsert(cs, caller, form, t1, t2, sent) ==
    [complaints |-> Append(cs, ComplaintData(caller, form, t1, t2)),
     response |-> Submitted(sent)]

\* a POST to /submit-complaint, run without interruption
SubmitResult(cs, caller, form, t1, t2, sent) ==
    IF SubmitRejection(cs, caller, form) # NoResponse
    THEN [complaints |-> cs, response |-> SubmitRejection(cs, caller, form)]
    ELSE SubmitInsert(cs, caller, form, t1, t2, sent)

(***************************************************************************)
(* check_duplicate_complaint (lines 281-308).                              *)
(***************************************************************************)
CheckError ==
    Response("check_duplicate_complaint", 500, "-", "-", "none", "error")

\* None.lower() raises inside the loop, so only when a complaint was fetched
CheckDuplicateResponse(cs, caller, data) ==
    IF caller = 0 THEN Unauthenticated("check_duplicate_complaint")
    ELSE LET incident_date == ParseIncidentDate(data.incident_date) IN
         IF incident_date = BadDate THEN CheckError
         ELSE IF ExistingComplaints(cs, data.bus_route, incident_date) = {}
         THEN Response("check_duplicate_complaint", 200, "-", "-", "none", "False")
         ELSE IF data.description = None THEN CheckError
         ELSE IF DuplicateFound(cs, data.bus_route, incident_date,
                                data.description)
         THEN Response("check_duplicate_complaint", 200, "-",
                       "A similar complaint has already been submitted.",
                       "none", "True")
         ELSE Response("check_duplicate_complaint", 200, "-", "-", "none", "False")

(***************************************************************************)
(* The state after construction: both collections empty, nobody logged in. *)
(***************************************************************************)
Idle == [pc |-> "idle", caller |-> 0, form |-> <<>>]

Init ==
    /\ users = <<>>
    /\ complaints = <<>>
    /\ logged_in = {}
    /\ now = 0
    /\ response = NoResponse
    /\ inflight = [w \in Workers |-> Idle]

\* the authenticated callers, and the anonymous one (0)
Callers == logged_in \cup {0}

\* a second utcnow() in the same request reads the same tick or a later one
LaterReads(limit) == {t \in {now, now + 1} : t <= limit}

(***************************************************************************)
(* One action per request, run to completion.  An action takes the set its *)
(* request is drawn from.                                                  *)
(***************************************************************************)
Tick(limit) ==
    /\ now < limit
    /\ now' = now + 1
    /\ UNCHANGED <<users, complaints, logged_in, response, inflight>>

Register(forms) ==
    \E form \in forms, sent \in BOOLEAN :
        LET r == RegisterResult(users, form, now, sent) IN
        /\ Len(r.users) <= MaxUsers
        /\ users' = r.users
        /\ response' = r.response
        /\ UNCHANGED <<complaints, logged_in, now, inflight>>

Login(forms) ==
    \E form \in forms :
        LET r == LoginResult(users, form) IN
        /\ logged_in' = logged_in \cup ({r.session} \ {0})
        /\ response' = r.response
        /\ UNCHANGED <<users, complaints, now, inflight>>

Logout ==
    \E caller \in Callers :
        /\ logged_in' = logged_in \ {caller}
        /\ response' = IF caller = 0 THEN Unauthenticated("logout")
                       ELSE Response("logout", 302, "home", "-", "none", "-")
        /\ UNCHANGED <<users, complaints, now, inflight>>

Dashboard ==
    \E caller \in Callers :
        /\ response' = DashboardResponse(users, caller)
        /\ UNCHANGED <<users, complaints, logged_in, now, inflight>>

AdminDashboard ==
    \E caller \in Callers :
        /\ response' = AdminDashboardResponse(users, caller)
        /\ UNCHANGED <<users, complaints, logged_in, now, inflight>>

UpdateComplaintStatus(ids, statuses) ==
    \E caller \in Callers, id \in ids, status \in statuses, sent \in BOOLEAN :
        LET r == UpdateResult(users, complaints, caller, id, status, now,
                              sent) IN
        /\ complaints' = r.complaints
        /\ response' = r.response
        /\ UNCHANGED <<users, logged_in, now, inflight>>

SubmitComplaint(forms, limit) ==
    \E caller \in Callers :
        IF caller = 0
        THEN /\ response' = Unauthenticated("submit_complaint")
             /\ UNCHANGED <<users, complaints, logged_in, now, inflight>>
        ELSE \E form \in forms :
                IF SubmitRejection(complaints, caller, form) # NoResponse
                THEN /\ response' = SubmitResult(complaints, caller, form,
                                                 now, now, TRUE).response
                     /\ UNCHANGED <<users, complaints, logged_in, now, inflight>>
                ELSE \E t2 \in LaterReads(limit), sent \in BOOLEAN :
                        LET r == SubmitResult(complaints, caller, form, now,
                                              t2, sent) IN
                        /\ Len(r.complaints) <= MaxComplaints
                        /\ complaints' = r.complaints
                        /\ response' = r.response
                        /\ now' = t2
                        /\ UNCHANGED <<users, logged_in, inflight>>

CheckDuplicateComplaint(datas) ==
    \E caller \in Callers :
        IF caller = 0
        THEN /\ response' = Unauthenticated("check_duplicate_complaint")
             /\ UNCHANGED <<users, complaints, logged_in, now, inflight>>
        ELSE \E data \in datas :
                /\ response' = CheckDuplicateResponse(complaints, caller, data)
                /\ UNCHANGED <<users, complaints, logged_in, now, inflight>>

(***************************************************************************)
(* The requests of the specification Spec: one student and one admin       *)
(* account; every stored route, description and day against every other,   *)
(* and each field of the form empty or missing in turn; no time passes.    *)
(***************************************************************************)
StudentA == [email |-> EmailA, password |-> Password, role |-> Student]
AdminB == [email |-> EmailB, password |-> Password, role |-> Admin]

GoodForm(bus_route, description, incident_date) ==
    [student_id |-> Filled, bus_route |-> bus_route, title |-> Filled,
     description |-> description, location |-> Filled,
     incident_date |-> incident_date]

BusRoutes == {Route1, Route2}
Descriptions == {DescAc, BrokenACUnit, TheACUnitIsBroken}
IncidentDates == {Mar01, Mar01Short, Mar02}
Absent == {<<>>, None}

\* the forms that pass validation and parse
ValidForms ==
    {GoodForm(r, d, i) : r \in BusRoutes, d \in Descriptions, i \in IncidentDates}

\* one field of a valid form empty, missing or, for the date, malformed
InvalidForms ==
    {[GoodForm(Route1, DescAc, Mar01) EXCEPT ![k] = v] :
        k \in RequiredFields \ {"description"}, v \in Absent}
    \cup {GoodForm(r, v, i) : r \in BusRoutes, v \in Absent, i \in {Mar01, Mar02}}
    \cup {GoodForm(Route1, DescAc, Feb30)}

SubmitForms == ValidForms \cup InvalidForms

\* the JSON bodies of check_duplicate_complaint: the same routes,
\* descriptions and dates
CheckData ==
    {[bus_route |-> f.bus_route, description |-> f.description,
      incident_date |-> f.incident_date] : f \in SubmitForms}

Next ==
    \/ Register({StudentA})
    \/ Login({[email |-> EmailA, password |-> Password],
              [email |-> EmailA, password |-> WrongPassword]})
    \/ Logout
    \/ Dashboard
    \/ AdminDashboard
    \/ UpdateComplaintStatus({1}, {"resolved"})
    \/ SubmitComplaint(SubmitForms, 0)
    \/ CheckDuplicateComplaint(CheckData)

Spec == Init /\ [][Next]_vars

(***************************************************************************)
(* The requests of the specification SpecLifecycle: a student and an admin *)
(* account, three texts on one route and day, and status changes on        *)
(* stored, unknown and malformed ids; no time passes.                      *)
(***************************************************************************)
LifecycleForms ==
    {GoodForm(Route1, d, Mar01) : d \in Descriptions}
    \cup {GoodForm(Route1, <<>>, Mar01)}

Statuses == {"pending", "resolved"}

\* the ids of the stored complaints, one that is not stored, and BadId
ComplaintIds == 0..(MaxComplaints + 1)

NextLifecycle ==
    \/ Register({StudentA, AdminB})
    \/ Login({[email |-> EmailA, password |-> Password],
              [email |-> EmailB, password |-> Password]})
    \/ Logout
    \/ Dashboard
    \/ AdminDashboard
    \/ UpdateComplaintStatus(ComplaintIds, Statuses)
    \/ SubmitComplaint(LifecycleForms, 0)
    \/ CheckDuplicateComplaint(
          {[bus_route |-> Route1, description |-> DescAc,
            incident_date |-> Mar01]})

SpecLifecycle == Init /\ [][NextLifecycle]_vars

(***************************************************************************)
(* The requests of the specification SpecClock: an admin account that      *)
(* submits and updates, two texts that are no duplicates of each other,    *)
(* and a clock that ticks between requests and between the two utcnow()    *)
(* of a submit.                                                            *)
(***************************************************************************)
ClockForms ==
    {GoodForm(Route1, d, Mar01) : d \in {BrokenACUnit, TheACUnitIsBroken}}

NextClock ==
    \/ Tick(MaxClock)
    \/ Register({AdminB})
    \/ Login({[email |-> EmailB, password |-> Password]})
    \/ Logout
    \/ Dashboard
    \/ AdminDashboard
    \/ UpdateComplaintStatus(ComplaintIds, Statuses)
    \/ SubmitComplaint(ClockForms, MaxClock)
    \/ CheckDuplicateComplaint(
          {[bus_route |-> Route1, description |-> DescAc,
            incident_date |-> Mar01]})

SpecClock == Init /\ [][NextClock]_vars

(***************************************************************************)
(* Requests served by concurrent worker threads.  register and             *)
(* submit_complaint read the collection and insert into it in two          *)
(* operations of the store, and another worker may run between the two.    *)
(***************************************************************************)
\* lines 78-84: the form is read and the email looked up
RegisterFind(forms) ==
    \E w \in Workers, form \in forms :
        /\ inflight[w].pc = "idle"
        /\ IF EmailExists(users, form.email)
           THEN /\ response' = EmailExistsResponse
                /\ UNCHANGED inflight
           ELSE /\ inflight' = [inflight EXCEPT ![w] =
                                  [pc |-> "register_insert", caller |-> 0,
                                   form |-> form]]
                /\ UNCHANGED response
        /\ UNCHANGED <<users, complaints, logged_in, now>>

\* lines 86-108: the insert and the welcome mail
RegisterFinish ==
    \E w \in Workers, sent \in BOOLEAN :
        /\ inflight[w].pc = "register_insert"
        /\ LET r == RegisterInsert(users, inflight[w].form, now, sent) IN
           /\ Len(r.users) <= MaxUsers
           /\ users' = r.users
           /\ response' = r.response
        /\ inflight' = [inflight EXCEPT ![w] = Idle]
        /\ UNCHANGED <<complaints, logged_in, now>>

\* lines 206-233: validation, the query and the loop over its result
SubmitQuery(forms) ==
    \E w \in Workers, caller \in logged_in, form \in forms :
        /\ inflight[w].pc = "idle"
        /\ IF SubmitRejection(complaints, caller, form) # NoResponse
           THEN /\ response' = SubmitRejection(complaints, caller, form)
                /\ UNCHANGED inflight
           ELSE /\ inflight' = [inflight EXCEPT ![w] =
                                  [pc |-> "submit_insert", caller |-> caller,
                                   form |-> form]]
                /\ UNCHANGED response
        /\ UNCHANGED <<users, complaints, logged_in, now>>

\* lines 236-270: the insert and the confirmation mail
SubmitFinish(limit) ==
    \E w \in Workers, t2 \in LaterReads(limit), sent \in BOOLEAN :
        /\ inflight[w].pc = "submit_insert"
        /\ LET r == SubmitInsert(complaints, inflight[w].caller,
                                 inflight[w].form, now, t2, sent) IN
           /\ Len(r.complaints) <= MaxComplaints
           /\ complaints' = r.complaints
           /\ response' = r.response
        /\ now' = t2
        /\ inflight' = [inflight EXCEPT ![w] = Idle]
        /\ UNCHANGED <<users, logged_in>>

ConcurrentForms ==
    {GoodForm(Route1, DescAc, Mar01), GoodForm(Route2, BrokenACUnit, Mar01)}

NextConcurrent ==
    \/ RegisterFind({StudentA})
    \/ RegisterFinish
    \/ Login({[email |-> EmailA, password |-> Password]})
    \/ Logout
    \/ Dashboard
    \/ AdminDashboard
    \/ UpdateComplaintStatus({1}, {"resolved"})
    \/ SubmitQuery(ConcurrentForms)
    \/ SubmitFinish(0)
    \/ CheckDuplicateComplaint(
          {[bus_route |-> Route1, description |-> DescAc,
            incident_date |-> Mar01]})

SpecConcurrent == Init /\ [][NextConcurrent]_vars

(***************************************************************************)
(* The duplicate rule and the validation of submit_complaint, under Spec.  *)
(***************************************************************************)
\* what a request may pick besides its form: the second clock read and
\* whether the mail went out
Sends == BOOLEAN

\* the complaint of stored document c has the route and the calendar day of
\* a form, and one lower-cased description contains the other
SameIncident(c, form) ==
    /\ c.bus_route = form.bus_route
    /\ c.incident_date = ParseIncidentDate(form.incident_date)
    /\ \/ IsSubstring(Lowered(form.description), Lowered(c.description))
       \/ IsSubstring(Lowered(c.description), Lowered(form.description))

\* C1: a submit with every required field filled in, on the route and the
\* calendar day of a stored complaint whose lower-cased description contains
\* the new one or is contained in it, is answered with the duplicate warning
\* and leaves the complaint collection as it was.
C1_DuplicateRejected ==
    \A caller \in logged_in, form \in SubmitForms, i \in DOMAIN complaints :
        (AllRequired(form) /\ SameIncident(complaints[i], form)) =>
            \A sent \in Sends :
                LET r == SubmitResult(complaints, caller, form, now, now, sent) IN
                /\ r.response = DuplicateResponse
                /\ r.complaints = complaints

\* C1 witness: a submit was just rejected as a duplicate while the store
\* holds "broken AC unit" (the shorter "ac" is rejected against it) and a
\* store holding "ac" rejects the longer text.
C1_Witness ==
    /\ response = DuplicateResponse
    /\ \E caller \in logged_in, i \in DOMAIN complaints :
        /\ complaints[i].description = BrokenACUnit
        /\ complaints[i].bus_route = Route1
        /\ SameIncident(complaints[i], GoodForm(Route1, DescAc, Mar01Short))
        /\ SubmitRejection(complaints, caller,
                           GoodForm(Route1, DescAc, Mar01Short)) = DuplicateResponse
    /\ \E caller \in logged_in, i \in DOMAIN complaints :
        /\ complaints[i].description = DescAc
        /\ complaints[i].bus_route = Route2
        /\ SameIncident(complaints[i],
                        GoodForm(Route2, TheACUnitIsBroken, Mar02))
        /\ SubmitRejection(complaints, caller,
                           GoodForm(Route2, TheACUnitIsBroken, Mar02))
             = DuplicateResponse

\* the three submits of the end-to-end scenario
ScenarioFirst == GoodForm(Route1, BrokenACUnit, Mar01)
ScenarioSecond == GoodForm(Route1, TheACUnitIsBroken, Mar01)
ScenarioThird == GoodForm(Route2, TheACUnitIsBroken, Mar01)

\* document c is what the submit of form stores: pending, 2024-03-01
StoredFrom(c, form) ==
    /\ c.bus_route = form.bus_route
    /\ c.description = form.description
    /\ c.incident_date = ToOrdinal(2024, 3, 1)
    /\ c.status = "pending"

\* the submit of form on store cs is accepted and appends its document
Accepted(cs, caller, form, sent) ==
    LET r == SubmitResult(cs, caller, form, now, now, sent) IN
    /\ r.response = Submitted(sent)
    /\ Len(r.complaints) = Len(cs) + 1
    /\ SubSeq(r.complaints, 1, Len(cs)) = cs
    /\ StoredFrom(r.complaints[Len(cs) + 1], form)

\* the submit of form on store cs is rejected as a duplicate, storing nothing
RejectedAsDuplicate(cs, caller, form, sent) ==
    LET r == SubmitResult(cs, caller, form, now, now, sent) IN
    /\ r.response = DuplicateResponse
    /\ r.complaints = cs

\* C2 as claimed: from the empty store the first submit is stored pending;
\* with only that complaint stored, the second ("the AC unit is broken", same
\* route and day) is rejected as a duplicate and the third (Route 2) is stored.
C2_AsClaimed ==
    \A caller \in logged_in, sent \in Sends :
        /\ complaints = <<>> => Accepted(complaints, caller, ScenarioFirst, sent)
        /\ (Len(complaints) = 1 /\ StoredFrom(complaints[1], ScenarioFirst)) =>
            /\ RejectedAsDuplicate(complaints, caller, ScenarioSecond, sent)
            /\ Accepted(complaints, caller, ScenarioThird, sent)

\* C2 amended: from the empty store the first submit is stored pending; with
\* that complaint stored, the second is not a duplicate (neither lower-cased
\* description contains the other) and is stored pending too; with both
\* stored, the third (Route 2) is stored.
C2_Scenario ==
    \A caller \in logged_in, sent \in Sends :
        /\ complaints = <<>> => Accepted(complaints, caller, ScenarioFirst, sent)
        /\ (Len(complaints) = 1 /\ StoredFrom(complaints[1], ScenarioFirst)) =>
            Accepted(complaints, caller, ScenarioSecond, sent)
        /\ (/\ Len(complaints) = 2
            /\ StoredFrom(complaints[1], ScenarioFirst)
            /\ StoredFrom(complaints[2], ScenarioSecond)) =>
            Accepted(complaints, caller, ScenarioThird, sent)

\* C2 witness: the first two submits of the scenario are both stored and the
\* last response is the success of a submit.
C2_Witness ==
    /\ Len(complaints) = 2
    /\ StoredFrom(complaints[1], ScenarioFirst)
    /\ StoredFrom(complaints[2], ScenarioSecond)
    /\ response \in {Submitted(TRUE), Submitted(FALSE)}
    /\ logged_in # {}

\* the store holds a complaint on the route and the calendar day of a request
SameRouteAndDay(bus_route, date_text) ==
    \E i \in DOMAIN complaints :
        /\ complaints[i].bus_route = bus_route
        /\ complaints[i].incident_date = ParseIncidentDate(date_text)

\* C3: submit_complaint answers with the duplicate warning, and
\* check_duplicate_complaint with duplicate true, only when the store holds a
\* complaint on exactly the request's route and on its calendar day.
C3_RouteAndDayScoped ==
    \A caller \in logged_in :
        /\ \A form \in SubmitForms :
            SubmitRejection(complaints, caller, form) = DuplicateResponse =>
                SameRouteAndDay(form.bus_route, form.incident_date)
        /\ \A data \in CheckData :
            CheckDuplicateResponse(complaints, caller, data).duplicate = "True" =>
                SameRouteAndDay(data.bus_route, data.incident_date)

\* C3 witness: the store holds "ac" twice, on Route 1 on 2024-03-02 and on
\* Route 2 on 2024-03-01, and a check has just answered duplicate false: the
\* same text on Route 1 on 2024-03-01 (other route, next day) is no duplicate.
C3_Witness ==
    /\ Len(complaints) = 2
    /\ \E i, j \in DOMAIN complaints :
        /\ complaints[i].description = DescAc
        /\ complaints[i].bus_route = Route1
        /\ complaints[i].incident_date = ToOrdinal(2024, 3, 2)
        /\ complaints[j].description = DescAc
        /\ complaints[j].bus_route = Route2
        /\ complaints[j].incident_date = ToOrdinal(2024, 3, 1)
    /\ response.handler = "check_duplicate_complaint"
    /\ response.duplicate = "False"
    /\ \E caller \in logged_in :
        /\ CheckDuplicateResponse(
              complaints, caller,
              [bus_route |-> Route1, description |-> DescAc,
               incident_date |-> Mar01]).duplicate = "False"
        /\ SubmitRejection(complaints, caller,
                           GoodForm(Route1, DescAc, Mar01)) = NoResponse

\* C4: a submit by a logged-in caller with a required field empty or missing
\* is answered 'All fields are required', stores nothing and sends no mail,
\* whatever the store holds.
C4_ValidationRejects ==
    \A caller \in logged_in, form \in SubmitForms :
        (\E k \in RequiredFields : form[k] \in Absent) =>
            \A sent \in Sends :
                LET r == SubmitResult(complaints, caller, form, now, now, sent) IN
                /\ r.response.flash = "All fields are required"
                /\ r.response.mail = "none"
                /\ r.complaints = complaints

\* C4 witness: a submit was just rejected by the validation while the store
\* holds a complaint.
C4_Witness ==
    /\ response = ValidationResponse
    /\ complaints # <<>>

\* a submit of the route, description and date of data, its other fields valid
SubmitOf(data) ==
    GoodForm(data.bus_route, data.description, data.incident_date)

\* C8 as claimed: check_duplicate_complaint answers duplicate true exactly
\* when the submit of the same route, description and date, its other fields
\* valid, is rejected as a duplicate on the same store.
C8_SameRule ==
    \A caller \in logged_in, data \in CheckData :
        (CheckDuplicateResponse(complaints, caller, data).duplicate = "True")
            <=> (SubmitRejection(complaints, caller, SubmitOf(data))
                    = DuplicateResponse)

\* C9 as claimed: a request whose description is the empty string is never
\* reported a duplicate, by submit_complaint or by check_duplicate_complaint.
C9_EmptyNeverMatches ==
    \A caller \in logged_in, data \in CheckData :
        data.description = <<>> =>
            /\ SubmitRejection(complaints, caller, SubmitOf(data))
                 # DuplicateResponse
            /\ CheckDuplicateResponse(complaints, caller, data).duplicate # "True"

(***************************************************************************)
(* update_complaint_status and the notifications, under SpecLifecycle.     *)
(***************************************************************************)
\* C5: update_complaint_status called by a logged-in caller whose role is
\* not admin flashes 'Unauthorized access', redirects to the dashboard,
\* sends no mail and leaves every complaint as it was, for every complaint
\* id and every status.
C5_NonAdminUnauthorized ==
    \A caller \in logged_in :
        Role(users, caller) # Admin =>
            \A id \in ComplaintIds, status \in Statuses, sent \in Sends :
                LET r == UpdateResult(users, complaints, caller, id, status,
                                      now, sent) IN
                /\ r.response.flash = "Unauthorized access"
                /\ r.response.target = "dashboard"
                /\ r.response.mail = "none"
                /\ r.complaints = complaints

\* C5 witness: a student's update was just refused while a pending complaint
\* is stored.
C5_Witness ==
    /\ response = UnauthorizedResponse
    /\ \E caller \in logged_in : Role(users, caller) = Student
    /\ \E i \in DOMAIN complaints : complaints[i].status = "pending"

\* the responses of the successful updates an admin can make in this state
SuccessResponses(caller) ==
    {UpdateResult(users, complaints, caller, id, status, now, sent).response :
        id \in DOMAIN complaints, status \in Statuses, sent \in Sends}

Orphaned(id) == [complaints EXCEPT ![id].user_id = Len(users) + 1]

\* C7: whether send_email returns True or False, a submit that passed the
\* validation and the duplicate test stores its complaint, and an admin's
\* update of a stored complaint stores the requested status, also when the
\* owner is not found; the two outcomes of the mail differ in the flashed
\* message and in nothing that is stored.
C7_MailNeverUndoes ==
    /\ \A caller \in logged_in, form \in LifecycleForms :
        SubmitRejection(complaints, caller, form) = NoResponse =>
            \A sent \in Sends :
                LET r == SubmitResult(complaints, caller, form, now, now, sent) IN
                /\ r.complaints =
                     Append(complaints, ComplaintData(caller, form, now, now))
                /\ r.response.target = "dashboard"
                /\ r.response.mail = Mail(sent)
    /\ \A caller \in logged_in :
        Role(users, caller) = Admin =>
            \A id \in DOMAIN complaints, status \in Statuses, sent \in Sends :
                /\ LET r == UpdateResult(users, complaints, caller, id, status,
                                         now, sent) IN
                   /\ r.complaints[id].status = status
                   /\ r.response.target = "admin_dashboard"
                   /\ r.response.mail = Mail(sent)
                /\ LET r == UpdateResult(users, Orphaned(id), caller, id,
                                         status, now, sent) IN
                   /\ r.complaints[id].status = status
                   /\ r.response = NothingFlashed

\* C7 witness: the mail of an update just failed and the status it asked for
\* is stored, while a second complaint went in.
C7_Witness ==
    /\ response = StatusUpdated(FALSE)
    /\ Len(complaints) = 2
    /\ \E i \in DOMAIN complaints : complaints[i].status = "resolved"

(***************************************************************************)
(* The user collection, under SpecConcurrent.                              *)
(***************************************************************************)
\* C10 as claimed: no two user documents have the same email, and a register
\* whose email is stored is answered 'Email already exists' and inserts
\* nothing, in every state reached by requests that may interleave between
\* the lookup and the insert.
C10_EmailUnique ==
    /\ \A i, j \in DOMAIN users : users[i].email = users[j].email => i = j
    /\ \A form \in {StudentA}, sent \in Sends :
        EmailExists(users, form.email) =>
            RegisterResult(users, form, now, sent)
                = [users |-> users, response |-> EmailExistsResponse]

(***************************************************************************)
(* What submit_complaint stores and the two timestamps, under SpecClock.   *)
(***************************************************************************)
\* C11: every complaint persisted by a successful submit is stored with
\* status pending and with created_at equal to updated_at, and that submit
\* adds exactly one document to the collection, the documents already
\* stored staying as they are.
C11_StoredAsOneNow ==
    \A caller \in logged_in, form \in ClockForms :
        SubmitRejection(complaints, caller, form) = NoResponse =>
            \A t2 \in LaterReads(MaxClock), sent \in Sends :
                LET r == SubmitResult(complaints, caller, form, now, t2, sent)
                    n == Len(complaints)
                IN  /\ Len(r.complaints) = n + 1
                    /\ SubSeq(r.complaints, 1, n) = complaints
                    /\ r.complaints[n + 1].status = "pending"
                    /\ r.complaints[n + 1].created_at =
                           r.complaints[n + 1].updated_at

(***************************************************************************)
(* Concurrent submits, under SpecConcurrent.                               *)
(***************************************************************************)
\* stored documents c and d are duplicates of each other: same route, same
\* incident day, and one lower-cased description contains the other
MutualDuplicates(c, d) ==
    /\ c.bus_route = d.bus_route
    /\ c.incident_date = d.incident_date
    /\ \/ IsSubstring(Lowered(c.description), Lowered(d.description))
       \/ IsSubstring(Lowered(d.description), Lowered(c.description))

\* the forms two workers hold are for the same route, day and description
SameRequest(f, g) ==
    /\ f.bus_route = g.bus_route
    /\ ParseIncidentDate(f.incident_date) = ParseIncidentDate(g.incident_date)
    /\ f.description = g.description

\* C12: when two submits for the same route, calendar day and description
\* have both run the duplicate query before either inserts, both inserts go
\* through: the collection grows by two documents, and the two are
\* duplicates of each other.
C12_BothPersist ==
    \A v \in Workers : \A w \in Workers \ {v} :
        (/\ inflight[v].pc = "submit_insert"
         /\ inflight[w].pc = "submit_insert"
         /\ SameRequest(inflight[v].form, inflight[w].form)) =>
            \A sent \in Sends :
                LET first == SubmitInsert(complaints, inflight[v].caller,
                                          inflight[v].form, now, now, sent)
                    second == SubmitInsert(first.complaints, inflight[w].caller,
                                           inflight[w].form, now, now, sent)
                    n == Len(complaints)
                IN  /\ first.response = Submitted(sent)
                    /\ second.response = Submitted(sent)
                    /\ Len(second.complaints) = n + 2
                    /\ MutualDuplicates(second.complaints[n + 1],
                                        second.complaints[n + 2])

\* C12 witness: both workers have inserted and the collection holds two
\* complaints that are duplicates of each other.
C12_Witness ==
    /\ response.handler = "submit_complaint"
    /\ response.code = 302
    /\ \A w \in Workers : inflight[w].pc = "idle"
    /\ \E i \in DOMAIN complaints, j \in DOMAIN complaints :
        /\ i # j
        /\ MutualDuplicates(complaints[i], complaints[j])

(***************************************************************************)
(* Submits that run to completion, under SpecLifecycle.                    *)
(***************************************************************************)
\* C13: when every submit runs its query and its insert as one step, the
\* collection never holds two distinct complaints with the same bus route
\* and the same incident day of which one lower-cased description is a
\* substring of the other, whatever registers, submits and status updates
\* came before.
C13_NoStoredDuplicates ==
    \A i \in DOMAIN complaints, j \in DOMAIN complaints :
        i # j => ~MutualDuplicates(complaints[i], complaints[j])

\* C13 witness: two complaints on one route and day are stored, neither
\* text containing the other, one of them already resolved by the admin,
\* and a submit of a text contained in one of them was just rejected.
C13_Witness ==
    /\ Len(complaints) = 2
    /\ complaints[1].bus_route = complaints[2].bus_route
    /\ complaints[1].incident_date = complaints[2].incident_date
    /\ \E i \in DOMAIN complaints : complaints[i].status = "resolved"
    /\ response = DuplicateResponse
    /\ \E caller \in logged_in :
        SubmitRejection(complaints, caller, GoodForm(Route1, DescAc, Mar01))
            = DuplicateResponse

(***************************************************************************)
(* What a request may change in a stored complaint, under SpecLifecycle.   *)
(***************************************************************************)
\* C14: no request changes the description, the route or the incident date
\* of a stored complaint, and the status of a stored complaint changes only
\* in a request to update_complaint_status while an admin is logged in; a
\* submit, a duplicate check, a register, a login, a dashboard view and an
\* update by a non-admin leave all four as they are.
C14_StatusOnlyByAdmin ==
    [][\A i \in DOMAIN complaints :
          /\ i \in DOMAIN complaints'
          /\ complaints'[i].description = complaints[i].description
          /\ complaints'[i].bus_route = complaints[i].bus_route
          /\ complaints'[i].incident_date = complaints[i].incident_date
          /\ complaints'[i].status # complaints[i].status =>
                /\ response'.handler = "update_complaint_status"
                /\ response'.target = "admin_dashboard"
                /\ \E caller \in logged_in : Role(users, caller) = Admin]_vars

\* C14 witness: a complaint has been resolved by the admin, another is
\* still pending, and the student, the only caller logged in, has just
\* been refused a status update.
C14_Witness ==
    /\ response = UnauthorizedResponse
    /\ logged_in # {}
    /\ \A caller \in logged_in : Role(users, caller) = Student
    /\ \E i \in DOMAIN complaints : complaints[i].status = "resolved"
    /\ \E i \in DOMAIN complaints : complaints[i].status = "pending"

\* the <status> segment of the URL: the two statuses the templates link to
\* and one that no template offers
StatusStrings == Statuses \cup {"in progress"}

\* C15: no status is terminal.  For every stored complaint, whatever its
\* status, an update by an admin with any status string is answered as a
\* success and makes that string the stored status, and a further update
\* brings the complaint back to pending.
C15_NoTerminalStatus ==
    \A caller \in logged_in :
        Role(users, caller) = Admin =>
            \A id \in DOMAIN complaints, status \in StatusStrings,
               sent \in Sends :
                LET r == UpdateResult(users, complaints, caller, id, status,
                                      now, sent)
                    back == UpdateResult(users, r.complaints, caller, id,
                                         "pending", now, sent)
                IN  /\ r.response = StatusUpdated(sent)
                    /\ r.complaints[id].status = status
                    /\ back.response = StatusUpdated(sent)
                    /\ back.complaints[id].status = "pending"

\* C15 witness: the admin has just updated a status, a stored complaint is
\* resolved, and an update of that complaint to pending goes through.
C15_Witness ==
    /\ response.handler = "update_complaint_status"
    /\ response.mail # "none"
    /\ \E caller \in logged_in, id \in DOMAIN complaints :
        /\ Role(users, caller) = Admin
        /\ complaints[id].status = "resolved"
        /\ UpdateResult(users, complaints, caller, id, "pending", now,
                        TRUE).complaints[id].status = "pending"

(***************************************************************************)
(* The order of the two timestamps, under SpecClock.                       *)
(***************************************************************************)
\* C16: with a clock that never goes backwards, every stored complaint has
\* updated_at >= created_at; a status update sets updated_at to the time of
\* the update and leaves created_at as it was.
C16_UpdatedNotBeforeCreated ==
    /\ \A i \in DOMAIN complaints :
          /\ complaints[i].updated_at >= complaints[i].created_at
          /\ complaints[i].updated_at <= now
    /\ \A caller \in logged_in, id \in DOMAIN complaints,
          status \in Statuses, sent \in Sends :
          Role(users, caller) = Admin =>
              LET r == UpdateResult(users, complaints, caller, id, status,
                                    now, sent) IN
              /\ r.complaints[id].updated_at = now
              /\ r.complaints[id].created_at = complaints[id].created_at

\* C16 witness: a complaint created at one tick was updated by the admin at
\* a later one, next to a complaint whose two timestamps came from two
\* different reads of the clock in its submit.
C16_Witness ==
    /\ response.handler = "update_complaint_status"
    /\ response.mail # "none"
    /\ \E i \in DOMAIN complaints :
        /\ complaints[i].status = "resolved"
        /\ complaints[i].updated_at > complaints[i].created_at
    /\ \E i \in DOMAIN complaints :
        /\ complaints[i].status = "pending"
        /\ complaints[i].updated_at > complaints[i].created_at

(***************************************************************************)
(* What a request leaves as it was, under SpecLifecycle.                   *)
(***************************************************************************)
\* C18: a status update by an admin changes nothing but the status and the
\* updated_at of one complaint: the other fields of that complaint, the
\* other complaints, the set of complaint ids and the user collection stay
\* as they are; and no request of any kind removes a complaint or a user.
C18_UpdateFrame ==
    [][/\ Len(users') >= Len(users)
       /\ SubSeq(users', 1, Len(users)) = users
       /\ Len(complaints') >= Len(complaints)
       /\ \A i \in DOMAIN complaints :
             complaints'[i] =
                 [complaints[i] EXCEPT !.status = complaints'[i].status,
                                       !.updated_at = complaints'[i].updated_at]
       /\ response'.handler = "update_complaint_status" =>
             /\ users' = users
             /\ DOMAIN complaints' = DOMAIN complaints
             /\ \A i \in DOMAIN complaints, j \in DOMAIN complaints :
                   (complaints'[i] # complaints[i]
                       /\ complaints'[j] # complaints[j]) => i = j]_vars

\* C18 witness: the admin has just resolved the second of two stored
\* complaints of the student; the first is still pending and both users
\* are stored.
C18_Witness ==
    /\ response.handler = "update_complaint_status"
    /\ response.mail # "none"
    /\ Len(users) = 2
    /\ Len(complaints) = 2
    /\ complaints[1].status = "pending"
    /\ complaints[2].status = "resolved"
    /\ \E i \in DOMAIN users :
        /\ users[i].role = Student
        /\ complaints[2].user_id = i

(***************************************************************************)
(* The fields of a stored complaint, under Spec.                           *)
(***************************************************************************)
\* document c has a description, a bus route, a title, a location and a
\* student id that are present and not empty, and a parsed incident date
Complete(c) ==
    /\ \A k \in RequiredFields \ {"incident_date"} : Truthy(c[k])
    /\ c.incident_date # BadDate
    /\ c.incident_date \in Nat

\* C19: every stored complaint has a non-empty description, bus route,
\* title, location, student id and incident date, and so has every
\* complaint a submit is about to store; the duplicate loop never meets a
\* stored empty description.
C19_StoredFieldsNonEmpty ==
    /\ \A i \in DOMAIN complaints : Complete(complaints[i])
    /\ \A caller \in logged_in, form \in SubmitForms :
          SubmitRejection(complaints, caller, form) = NoResponse =>
              \A sent \in Sends :
                  LET r == SubmitInsert(complaints, caller, form, now, now,
                                        sent) IN
                  Complete(r.complaints[Len(r.complaints)])

\* C19 witness: a submit has just stored a second complaint, and forms
\* with an empty and with a missing description are turned away by the
\* validation.
C19_Witness ==
    /\ response.handler = "submit_complaint"
    /\ response.mail # "none"
    /\ Len(complaints) = 2
    /\ \E caller \in logged_in :
        \A v \in Absent :
            /\ GoodForm(Route2, v, Mar02) \in SubmitForms
            /\ SubmitRejection(complaints, caller, GoodForm(Route2, v, Mar02))
                   = ValidationResponse

(***************************************************************************)
(* The requests of the specification SpecRoles: register forms whose role  *)
(* field is student, a string no template offers, or missing.              *)
(***************************************************************************)
DriverB == [email |-> EmailB, password |-> Password, role |-> Driver]
NoRoleB == [email |-> EmailB, password |-> Password, role |-> None]

RoleForms == {StudentA, DriverB, NoRoleB}

NextRoles ==
    \/ Register(RoleForms)
    \/ Login({[email |-> EmailA, password |-> Password],
              [email |-> EmailB, password |-> Password]})
    \/ Logout
    \/ Dashboard
    \/ AdminDashboard
    \/ UpdateComplaintStatus({1}, {"resolved"})
    \/ SubmitComplaint(ClockForms, 0)
    \/ CheckDuplicateComplaint(
          {[bus_route |-> Route1, description |-> DescAc,
            incident_date |-> Mar01]})

SpecRoles == Init /\ [][NextRoles]_vars

\* C17: every stored user has the role student or the role admin, whatever
\* role value the register form carried, a missing role and an arbitrary
\* string included.
C17_RoleStudentOrAdmin ==
    \A i \in DOMAIN users : users[i].role \in {Student, Admin}
====
